---------------------------- MODULE Spec2Model ----------------------------
(***************************************************************************)
(* A model of MerkleTree (src/src/merkle_tree.ts): a fixed-depth binary    *)
(* Merkle tree whose root and depth are persisted as metadata in a         *)
(* key-value store.                                                        *)
(*                                                                         *)
(* Buffers are symbolic.  A leaf value is <<"leaf", id, bytes>>, a digest  *)
(* is a term built by Hash and Compress, and the JavaScript value          *)
(* `undefined` (an array hole, an index past the end of an array, a field  *)
(* of an empty object) is the empty tuple.                                 *)
(***************************************************************************)
EXTENDS Integers, Sequences, FiniteSets, TLC

VARIABLES
    db,          \* the store: the metadata kept under the tree's name (the
                 \* keys Buffer.from(name) and name address the same entry)
    live,        \* TRUE while a MerkleTree instance exists
    depth,       \* this.depth
    root,        \* this.root
    leaves,      \* this.leaves (a JavaScript array, holes included)
    treeObject,  \* this.treeObject: <<>> for {}, else level l at position l+1
    zeroHashes,  \* this.zeroHashes
    hashPath,    \* the HashPath returned by the last getHashPath call
    last,        \* the last call on the instance: operation, arguments, outcome
    failed,      \* TRUE once a call on this instance has failed
    misused,     \* TRUE once updateElement got an index out of range or a
                 \* value that is not LEAF_BYTES long
    before,      \* what the previous instance looked like when it was discarded
    nops         \* number of calls made so far

vars == <<db, live, depth, root, leaves, treeObject, zeroHashes, hashPath,
          last, failed, misused, before, nops>>

---------------------------------------------------------------------------
(* Bounds of the model *)

MaxD == 2     \* largest depth a tree is opened with
MaxOps == 4   \* number of calls in one run of Spec

(* Program constants *)

MAX_DEPTH == 32
LEAF_BYTES == 64
DIGEST_BYTES == 32

---------------------------------------------------------------------------
(* Values *)

Undefined == <<>>

\* Buffer.alloc(LEAF_BYTES, 0)
ZeroLeaf == <<"leaf", 0, LEAF_BYTES>>

Leaf(n) == <<"leaf", n, LEAF_BYTES>>

\* a value that is not LEAF_BYTES long
ShortLeaf == <<"leaf", 1, DIGEST_BYTES>>

ValidValues == {ZeroLeaf, Leaf(1)}

Values == ValidValues \cup {ShortLeaf}

ByteLength(value) == value[3]

Pow2(n) == 2 ^ n

\* the indexes a caller passes: every slot, one below and one above the range
Indexes(d) == (-1) .. Pow2(d)

InRange(index, d) == 0 <= index /\ index < Pow2(d)

\* the depths a caller passes to MerkleTree.new
Depths == {0} \cup (1..MaxD) \cup {MAX_DEPTH + 1}

---------------------------------------------------------------------------
(* Sha256Hasher: a collision-free hash.  compress concatenates its two     *)
(* arguments, which fails on `undefined`.                                  *)

Hash(data) == <<"h", data>>

Compress(lhs, rhs) == <<"c", lhs, rhs>>

CompressThrows(lhs, rhs) == lhs = Undefined \/ rhs = Undefined

---------------------------------------------------------------------------
(* Metadata: 32 bytes of root, then the depth as a 4-byte little-endian    *)
(* unsigned integer.                                                       *)

writeUInt32LE(n) ==
    <<n % 256, (n \div 256) % 256, (n \div 65536) % 256, (n \div 16777216) % 256>>

readUInt32LE(b) == b[1] + 256 * b[2] + 65536 * b[3] + 16777216 * b[4]

NoMeta == [present |-> FALSE, root |-> Undefined, depth |-> writeUInt32LE(0)]

\* the buffer writeMetaData builds
MetaData(r, d) == [present |-> TRUE, root |-> r, depth |-> writeUInt32LE(d)]

---------------------------------------------------------------------------
(* createZeroHashes *)

RECURSIVE ZeroHashList(_)
ZeroHashList(i) ==
    IF i = 0 THEN <<Hash(ZeroLeaf)>>
    ELSE LET hashList == ZeroHashList(i - 1)
             currentHash == hashList[Len(hashList)]
         IN  Append(hashList, Compress(currentHash, currentHash))

createZeroHashes(d) == ZeroHashList(d)

---------------------------------------------------------------------------
(* this.leaves[index] = value on a JavaScript array: a negative index sets *)
(* a property that is no element, an index past the end grows the array    *)
(* and leaves holes below it.                                              *)

\* a variant that appends instead of assigning at index
SetLeafPush(arr, index, value) == Append(arr, value)

Holes(n) == [i \in 1..n |-> Undefined]

SetLeaf(arr, index, value) ==
    IF index < 0 THEN arr
    ELSE IF index < Len(arr) THEN [arr EXCEPT ![index + 1] = value]
    ELSE arr \o Holes(index - Len(arr)) \o <<value>>

---------------------------------------------------------------------------
(* createTreeObject *)

\* leaves.map((leaf) => this.hasher.hash(leaf)) from position i on: map keeps
\* the holes
RECURSIVE HashLeavesFrom(_, _)
HashLeavesFrom(src, i) ==
    IF i > Len(src) THEN <<>>
    ELSE <<IF src[i] = Undefined THEN Undefined ELSE Hash(src[i])>>
             \o HashLeavesFrom(src, i + 1)

HashLeaves(src) == HashLeavesFrom(src, 1)

\* a variant that takes the leaf-level entry at every level
ZeroAtLeafLevel(zh, level) == IF 1 <= Len(zh) THEN zh[1] ELSE Undefined

\* this.zeroHashes[level]
ZeroAt(zh, level) == IF level + 1 <= Len(zh) THEN zh[level + 1] ELSE Undefined

\* tree[level][i], i counted from 0
Left(layer, i) == layer[i + 1]

\* i + 1 < layerSize ? tree[level][i + 1] : this.zeroHashes[level]
Right(layer, i, level, zh) ==
    IF i + 1 < Len(layer) THEN layer[i + 2] ELSE ZeroAt(zh, level)

\* the inner loop from i on: the nodes it pushes to tree[level + 1]
RECURSIVE PushPairs(_, _, _, _)
PushPairs(layer, i, level, zh) ==
    IF i >= Len(layer) THEN <<>>
    ELSE <<Compress(Left(layer, i), Right(layer, i, level, zh))>>
             \o PushPairs(layer, i + 2, level, zh)

PairUp(layer, level, zh) == PushPairs(layer, 0, level, zh)

\* some compress call of the inner loop throws
LayerThrows(layer, level, zh) ==
    \E i \in 0..(Len(layer) - 1) :
        i % 2 = 0 /\ CompressThrows(Left(layer, i), Right(layer, i, level, zh))

RECURSIVE BuildFrom(_, _, _, _)
BuildFrom(tree, level, d, zh) ==
    IF level >= d THEN [threw |-> FALSE, tree |-> tree]
    ELSE IF LayerThrows(tree[level + 1], level, zh)
         THEN [threw |-> TRUE, tree |-> <<>>]
         ELSE BuildFrom(Append(tree, PairUp(tree[level + 1], level, zh)),
                        level + 1, d, zh)

\* the tree createTreeObject assigns to this.treeObject, or threw = TRUE when
\* the hasher throws and the assignment is never reached
createTreeObject(lvs, zh, d) ==
    LET src == IF Len(lvs) # 0 THEN lvs ELSE zh
    IN  BuildFrom(<<HashLeaves(src)>>, 0, d, zh)

\* this.treeObject[this.depth][0], given that this.treeObject[this.depth] exists
TopNode(tree, d) ==
    IF Len(tree[d + 1]) = 0 THEN Undefined ELSE tree[d + 1][1]

---------------------------------------------------------------------------
(* Calls *)

\* `again` is TRUE when the call repeats the call before it, operation and
\* arguments; `first` is then what that earlier call returned and left in
\* this.root
NoFirst == [outcome |-> "none", ret |-> Undefined, mem |-> Undefined]

NoCall == [op |-> "none", index |-> 0, value |-> Undefined,
           outcome |-> "none", ret |-> Undefined, mem |-> Undefined,
           again |-> FALSE, first |-> NoFirst]

Call(op, index, value, outcome, ret, mem) ==
    LET again == last.op = op /\ last.index = index /\ last.value = value
    IN  [op |-> op, index |-> index, value |-> value,
         outcome |-> outcome, ret |-> ret, mem |-> mem,
         again |-> again,
         first |-> IF again
                   THEN [outcome |-> last.outcome, ret |-> last.ret, mem |-> last.mem]
                   ELSE NoFirst]

NoBefore == [valid |-> FALSE, root |-> Undefined, depth |-> 0, failed |-> FALSE]

Init ==
    /\ db = NoMeta
    /\ live = FALSE
    /\ depth = 0
    /\ root = Undefined
    /\ leaves = <<>>
    /\ treeObject = <<>>
    /\ zeroHashes = <<>>
    /\ hashPath = <<>>
    /\ last = NoCall
    /\ failed = FALSE
    /\ misused = FALSE
    /\ before = NoBefore
    /\ nops = 0

BadDepth(d) == ~(d >= 1 /\ d <= MAX_DEPTH)

\* a variant that takes the first entry of the table
FreshRootLeafLevel(zh, d) == zh[1]

\* the root a fresh instance starts with: this.zeroHashes[this.depth]
FreshRoot(zh, d) == zh[d + 1]

\* a variant that keeps the caller's depth
RestoredDepthFromCaller(meta, d) == d

\* the depth MerkleTree.new restores: `const depth = meta.readUInt32LE(32)`
\* shadows the caller's depth d
RestoredDepth(meta, d) == readUInt32LE(meta.depth)

\* MerkleTree.new on a store that holds metadata: restore root and depth; the
\* constructor sets neither this.leaves nor this.zeroHashes on this path
NewRestore(d) ==
    /\ ~live
    /\ nops < MaxOps
    /\ db.present
    /\ LET metaDepth == RestoredDepth(db, d)
       IN  IF BadDepth(metaDepth)
           THEN /\ last' = Call("new", d, Undefined, "BadDepth", Undefined, Undefined)
                /\ UNCHANGED <<live, depth, root>>
           ELSE /\ live' = TRUE
                /\ depth' = metaDepth
                /\ root' = db.root
                /\ last' = Call("restore", d, Undefined, "ok", db.root, db.root)
    /\ leaves' = <<>>
    /\ treeObject' = <<>>
    /\ zeroHashes' = <<>>
    /\ hashPath' = <<>>
    /\ failed' = FALSE
    /\ nops' = nops + 1
    /\ UNCHANGED <<db, misused, before>>

\* MerkleTree.new on a store without metadata: a fresh tree, persisted at once
NewFresh(d, putOk) ==
    /\ ~live
    /\ nops < MaxOps
    /\ ~db.present
    /\ IF BadDepth(d)
       THEN /\ last' = Call("new", d, Undefined, "BadDepth", Undefined, Undefined)
            /\ UNCHANGED <<db, live, depth, root, zeroHashes>>
       ELSE LET zh == createZeroHashes(d)
                r == FreshRoot(zh, d)
            IN  IF putOk
                THEN /\ db' = MetaData(r, d)
                     /\ live' = TRUE
                     /\ depth' = d
                     /\ root' = r
                     /\ zeroHashes' = zh
                     /\ last' = Call("new", d, Undefined, "ok", r, r)
                ELSE /\ last' = Call("new", d, Undefined, "PersistenceError",
                                     Undefined, Undefined)
                     /\ UNCHANGED <<db, live, depth, root, zeroHashes>>
    /\ leaves' = <<>>
    /\ treeObject' = <<>>
    /\ hashPath' = <<>>
    /\ failed' = FALSE
    /\ nops' = nops + 1
    /\ UNCHANGED <<misused, before>>

\* reCreateTree up to the metadata write: createTreeObject is called without
\* being awaited, so when it throws its promise is dropped, the old
\* this.treeObject stays and the next line reads its top node; `threw` is the
\* TypeError of reading [0] of the undefined this.treeObject[this.depth]
reCreateTree(lvs, tree, zh, d) ==
    LET built == createTreeObject(lvs, zh, d)
        newTree == IF built.threw THEN tree ELSE built.tree
    IN  IF newTree = <<>>
        THEN [tree |-> newTree, threw |-> TRUE, root |-> Undefined]
        ELSE [tree |-> newTree, threw |-> FALSE, root |-> TopNode(newTree, d)]

\* updateElement -> appendTreeObject -> reCreateTree -> writeMetaData; putOk
\* is whether db.put succeeds
updateElement(index, value, putOk) ==
    /\ live
    /\ nops < MaxOps
    /\ LET lvs == SetLeaf(leaves, index, value)
           rc == reCreateTree(lvs, treeObject, zeroHashes, depth)
       IN  /\ leaves' = lvs
           /\ treeObject' = rc.tree
           /\ IF rc.threw
              THEN /\ last' = Call("updateElement", index, value, "TypeError",
                                   Undefined, root)
                   /\ failed' = TRUE
                   /\ UNCHANGED <<root, db>>
              ELSE /\ root' = rc.root
                   /\ IF rc.root = Undefined
                      THEN \* this.root.copy(data) in writeMetaData
                           /\ last' = Call("updateElement", index, value,
                                           "TypeError", Undefined, rc.root)
                           /\ failed' = TRUE
                           /\ UNCHANGED db
                      ELSE IF putOk
                      THEN /\ db' = MetaData(rc.root, depth)
                           /\ last' = Call("updateElement", index, value, "ok",
                                           rc.root, rc.root)
                           /\ UNCHANGED failed
                      ELSE /\ last' = Call("updateElement", index, value,
                                           "PersistenceError", Undefined, rc.root)
                           /\ failed' = TRUE
                           /\ UNCHANGED db
    /\ misused' = (misused \/ ~InRange(index, depth) \/ ByteLength(value) # LEAF_BYTES)
    /\ nops' = nops + 1
    /\ UNCHANGED <<live, depth, zeroHashes, hashPath, before>>

\* new HashPath()
EmptyHashPath == <<>>

getHashPath(index) ==
    /\ live
    /\ nops < MaxOps
    /\ hashPath' = EmptyHashPath
    /\ last' = Call("getHashPath", index, Undefined, "ok", Undefined, root)
    /\ nops' = nops + 1
    /\ UNCHANGED <<db, live, depth, root, leaves, treeObject, zeroHashes,
                   failed, misused, before>>

\* the process ends: the instance is discarded, the store stays
Restart ==
    /\ live
    /\ live' = FALSE
    /\ before' = [valid |-> TRUE, root |-> root, depth |-> depth, failed |-> failed]
    /\ depth' = 0
    /\ root' = Undefined
    /\ leaves' = <<>>
    /\ treeObject' = <<>>
    /\ zeroHashes' = <<>>
    /\ hashPath' = <<>>
    /\ last' = NoCall
    /\ failed' = FALSE
    /\ UNCHANGED <<db, misused, nops>>

Next ==
    \/ \E d \in Depths : NewRestore(d)
    \/ \E d \in Depths, putOk \in BOOLEAN : NewFresh(d, putOk)
    \/ \E index \in Indexes(depth), value \in Values, putOk \in BOOLEAN :
          updateElement(index, value, putOk)
    \/ \E index \in Indexes(depth) : getHashPath(index)
    \/ Restart

Spec == Init /\ [][Next]_vars

---------------------------------------------------------------------------
(* Materialization as a function of the leaves: a second specification     *)
(* that starts from every fresh tree of depth 1..MaxD whose first          *)
(* k slots were set in order to 64-byte values, and makes one              *)
(* updateElement call.                                                     *)

DenseTree(lvs, d) ==
    IF Len(lvs) = 0 THEN <<>>
    ELSE createTreeObject(lvs, createZeroHashes(d), d).tree

DenseRoot(lvs, d) ==
    IF Len(lvs) = 0 THEN FreshRoot(createZeroHashes(d), d)
    ELSE TopNode(DenseTree(lvs, d), d)

InitBuild ==
    \E d \in 1..MaxD : \E k \in 0..Pow2(d) : \E lvs \in [1..k -> ValidValues] :
        /\ db = MetaData(DenseRoot(lvs, d), d)
        /\ live = TRUE
        /\ depth = d
        /\ root = DenseRoot(lvs, d)
        /\ leaves = lvs
        /\ treeObject = DenseTree(lvs, d)
        /\ zeroHashes = createZeroHashes(d)
        /\ hashPath = <<>>
        /\ last = NoCall
        /\ failed = FALSE
        /\ misused = FALSE
        /\ before = NoBefore
        /\ nops = 0

NextBuild ==
    \E index \in Indexes(depth), value \in Values, putOk \in BOOLEAN :
        last.op = "none" /\ updateElement(index, value, putOk)

SpecBuild == InitBuild /\ [][NextBuild]_vars

---------------------------------------------------------------------------
(* The reference the properties compare the tree with: the full tree of    *)
(* 2^d leaves in which every slot that holds no value holds the zero leaf. *)

\* the root of the all-empty subtree of height l
RECURSIVE EmptyRoot(_)
EmptyRoot(l) ==
    IF l = 0 THEN Hash(ZeroLeaf)
    ELSE Compress(EmptyRoot(l - 1), EmptyRoot(l - 1))

IsZeroTable(zh, d) ==
    /\ Len(zh) = d + 1
    /\ zh[1] = Hash(ZeroLeaf)
    /\ \A l \in 1..d : zh[l + 1] = Compress(zh[l], zh[l])

\* the leaf in slot i (from 0)
LeafAt(lvs, i) ==
    IF i + 1 <= Len(lvs) /\ lvs[i + 1] # Undefined THEN lvs[i + 1] ELSE ZeroLeaf

RECURSIVE NodeAt(_, _, _)
NodeAt(lvs, level, i) ==
    IF level = 0 THEN Hash(LeafAt(lvs, i))
    ELSE Compress(NodeAt(lvs, level - 1, 2 * i), NodeAt(lvs, level - 1, 2 * i + 1))

MerkleRoot(lvs, d) == NodeAt(lvs, d, 0)

Dense(lvs) == \A i \in 1..Len(lvs) : lvs[i] # Undefined

CeilDiv(a, b) == (a + b - 1) \div b

\* compressing the pairs of `path` from the leaf level up leads to r
PathLeadsTo(path, index, d, r) ==
    /\ Len(path) = d
    /\ \A i \in 1..d :
          LET node == Compress(path[i][1], path[i][2])
              pos == index \div Pow2(i)
          IN  IF i = d THEN node = r
              ELSE IF pos % 2 = 0 THEN path[i + 1][1] = node
              ELSE path[i + 1][2] = node

ValidCall(c) == InRange(c.index, depth) /\ c.value \in ValidValues

---------------------------------------------------------------------------
(* Properties *)

\* C1: for every index in range, getHashPath(index) returns depth sibling
\* pairs, leaf level first, whose compression from the bottom up, each result
\* being the left (even position) or right (odd position) member of the next
\* pair, ends in getRoot().
C1_HashPathLeadsToRoot ==
    (live /\ last.op = "getHashPath" /\ InRange(last.index, depth))
        => PathLeadsTo(hashPath, last.index, depth, root)

\* C2: updateElement(index, value) with an index in range and a 64-byte value
\* sets that leaf and treats every slot never set, the gaps below index
\* included, as a zero leaf: the root it returns and getRoot() are the root of
\* the full tree of 2^depth leaves.
C2_UnsetSlotsAreZeroLeaves ==
    (/\ live
     /\ last.op = "updateElement"
     /\ ValidCall(last)
     /\ ~misused
     /\ last.outcome # "PersistenceError"
     /\ IsZeroTable(zeroHashes, depth))
        => /\ last.outcome = "ok"
           /\ leaves[last.index + 1] = last.value
           /\ last.ret = root
           /\ root = MerkleRoot(leaves, depth)

\* C3: updateElement with an index out of range fails with an out-of-range
\* error, and with a value that is not 64 bytes long with an invalid-leaf-size
\* error; either way the leaves, the tree, the root and the stored metadata
\* stay as they were.
C3_InvalidCallRejected ==
    [][(/\ nops' = nops + 1
        /\ last'.op = "updateElement"
        /\ (~InRange(last'.index, depth) \/ ByteLength(last'.value) # LEAF_BYTES))
          => /\ last'.outcome \in {"OutOfRangeError", "InvalidLeafSizeError"}
             /\ UNCHANGED <<leaves, treeObject, root, db>>]_vars

C5_RootIsPersistedRoot ==
    (live /\ last.op = "updateElement" /\ ~misused) => root = db.root

\* C6: opening a tree on a store without metadata, with a depth of 1..32,
\* gives a tree whose root is the root of the all-empty tree of that depth, and
\* the store then holds that root and that depth.
C6_FreshTree ==
    (last.op = "new" /\ last.outcome = "ok")
        => /\ live
           /\ depth = last.index
           /\ root = EmptyRoot(depth)
           /\ last.ret = root
           /\ db.present
           /\ db.root = EmptyRoot(depth)
           /\ readUInt32LE(db.depth) = depth

C6_Witness ==
    /\ last.op = "new"
    /\ last.outcome = "ok"
    /\ depth = 2
    /\ db.present

\* C7: updateElement(index, value), index in range and value 64 bytes long,
\* called twice in a row: the second call leaves the root the first call left,
\* and when both return they return the same root.
C7_UpdateIdempotent ==
    (live /\ last.op = "updateElement" /\ last.again /\ ValidCall(last))
        => /\ last.mem = last.first.mem
           /\ root = last.first.mem
           /\ (last.outcome # "PersistenceError" /\ last.first.outcome # "PersistenceError")
                 => (last.outcome = last.first.outcome /\ last.ret = last.first.ret)

C7_Witness ==
    /\ live
    /\ last.op = "updateElement"
    /\ last.again
    /\ ValidCall(last)
    /\ last.outcome = "ok"
    /\ last.first.outcome = "ok"
    /\ last.value # ZeroLeaf
    /\ last.ret = root

\* C8: in every state of an instance, fresh, restored or updated by calls
\* with an index in range and a 64-byte value, the root is the root of the
\* tree materialized in full from the instance's leaves.
C8_NoDrift ==
    (live /\ ~misused) => root = MerkleRoot(leaves, depth)

\* C9: whenever createTreeObject has run on an instance, fresh or restored,
\* the instance's zero-hash table has depth + 1 entries, the hash of the zero
\* leaf first and each next one the compression of the one before with itself.
C9_ZeroHashesComputed ==
    (live /\ last.op = "updateElement" /\ ~misused)
        => IsZeroTable(zeroHashes, depth)

\* C10: from k leaves without gaps, 1 <= k <= 2^depth, materialization pairs
\* consecutive nodes and puts zeroHashes[level] in the place of a missing
\* right child: level l has ceil(k / 2^l) entries, level depth has one, and
\* that one is the root of the full tree padded on the right with zero leaves.
C10_DenseMaterialization ==
    (/\ last.op = "updateElement"
     /\ Dense(leaves)
     /\ Len(leaves) >= 1
     /\ Len(leaves) <= Pow2(depth))
        => /\ Len(treeObject) = depth + 1
           /\ \A l \in 0..depth :
                 Len(treeObject[l + 1]) = CeilDiv(Len(leaves), Pow2(l))
           /\ \A l \in 0..(depth - 1) : \A j \in 1..Len(treeObject[l + 2]) :
                 treeObject[l + 2][j] =
                     Compress(treeObject[l + 1][2 * j - 1],
                              IF 2 * j <= Len(treeObject[l + 1])
                              THEN treeObject[l + 1][2 * j]
                              ELSE EmptyRoot(l))
           /\ treeObject[depth + 1][1] = MerkleRoot(leaves, depth)
           /\ root = MerkleRoot(leaves, depth)

C10_Witness ==
    /\ last.op = "updateElement"
    /\ last.index = 2
    /\ depth = 2
    /\ Dense(leaves)
    /\ Len(leaves) = 3
    /\ last.value = Leaf(1)
    /\ Len(treeObject[2]) = 2
    /\ treeObject[2][2] = Compress(Hash(Leaf(1)), zeroHashes[1])

=============================================================================
